---- MODULE Spec2Model ----
(***************************************************************************)
(* Model of the configuration client's rule handlers:                      *)
(*   configuration/tcp_content_rule.go  (TCP content rules)                *)
(*   backend switching rules            (src/unnamed/part_000)             *)
(* Text is a sequence of one-character strings.  An entity is a record     *)
(* [ID, fields]; a collection is a sequence of entities; a single-item     *)
(* result is carried as a one-element sequence.                            *)
(*                                                                         *)
(* client, shadow : the caller's client and the same client with the cache *)
(*                  disabled, driven by the same calls                     *)
(* pend, seen     : history of the calls (writes not yet read back, reads  *)
(*                  not yet written over)                                  *)
(* blob, parsed   : a text handed to the record parser and its result    *)
(* procs          : the position and locals of each concurrent caller      *)
(***************************************************************************)
EXTENDS Integers, Sequences, FiniteSets, TLC

VARIABLES client, shadow, pend, seen, steps, blob, parsed, procs

vars == <<client, shadow, pend, seen, steps, blob, parsed, procs>>

----------------------------------------------------------------------------
(* Bounds and input sets *)

\* number of client calls explored in one behaviour
MaxSteps == 2

\* the same, for the behaviours that follow the cached version
MaxStepsVersion == 3

ParentNames == {"p1", "p2"}
TxIds == {"", "t1"}
IDs == {1, 2}

\* the (parent type, rule type) pairs the calls use: the three legal ones,
\* response under a frontend, an unrecognized parent type and an
\* unrecognized rule type
TCPKinds ==
  {<<"frontend", "request">>, <<"backend", "request">>, <<"backend", "response">>,
   <<"frontend", "response">>, <<"bogus", "request">>, <<"backend", "bogus">>}

\* longest generated text handed to the record parser
MaxBlobLen == 5

\* the characters of the generated texts: two digits, a letter, the line
\* break and the blank
BlobChars == {"1", "2", "x", "\n", " "}

\* "1\nname a\n\n2\nname b\n\n"
ScenarioBlob ==
  <<"1", "\n", "n", "a", "m", "e", " ", "a", "\n", "\n",
    "2", "\n", "n", "a", "m", "e", " ", "b", "\n", "\n">>

\* two records whose header is not an integer, one whose header is signed
MalformedBlob ==
  <<"x", "1", " ", "a", "\n", "\n", "-", "2", "\n", "\n", "1", "x", "\n", "b">>

\* a payload the validation service accepts and one it rejects
Payloads ==
  { [ID |-> 1, fields |-> << <<"b">> >>, valid |-> TRUE],
    [ID |-> 2, fields |-> << <<"c">> >>, valid |-> FALSE] }

----------------------------------------------------------------------------
(* Text conversions *)

Digits == <<"0", "1", "2", "3", "4", "5", "6", "7", "8", "9">>

IsDigit(ch) == \E i \in 1..10 : Digits[i] = ch

DigitVal(ch) == CHOOSE i \in 0..9 : Digits[i + 1] = ch

\* strconv.FormatInt(n, 10)
RECURSIVE FormatInt(_)
FormatInt(n) ==
  IF n < 0 THEN <<"-">> \o FormatInt(-n)
  ELSE IF n < 10 THEN <<Digits[n + 1]>>
  ELSE FormatInt(n \div 10) \o <<Digits[(n % 10) + 1]>>

RECURSIVE DigitsVal(_)
DigitsVal(s) ==
  IF s = <<>> THEN 0
  ELSE 10 * DigitsVal(SubSeq(s, 1, Len(s) - 1)) + DigitVal(s[Len(s)])

\* strconv.ParseInt(s, 10, 64): optional sign, then one or more digits
ParseInt(s) ==
  LET signed == s # <<>> /\ s[1] \in {"+", "-"}
      body == IF signed THEN Tail(s) ELSE s
      ok == body # <<>> /\ \A i \in 1..Len(body) : IsDigit(body[i])
  IN  [ok |-> ok,
       val |-> IF ~ok THEN 0
               ELSE IF s[1] = "-" THEN 0 - DigitsVal(body)
               ELSE DigitsVal(body)]

\* strings.Split(response, "\n\n"): cut at each "\n\n", left to right
RECURSIVE SplitBlank(_, _)
SplitBlank(s, cur) ==
  IF s = <<>> THEN <<cur>>
  ELSE IF Len(s) >= 2 /\ s[1] = "\n" /\ s[2] = "\n"
       THEN <<cur>> \o SplitBlank(SubSeq(s, 3, Len(s)), <<>>)
  ELSE SplitBlank(Tail(s), Append(cur, s[1]))

\* strings.TrimSpace(s) == ""
IsBlank(s) == \A i \in 1..Len(s) : s[i] \in {" ", "\n", "\t", "\r"}

\* the lines of a text (cut at each "\n")
RECURSIVE SplitLines(_, _)
SplitLines(s, cur) ==
  IF s = <<>> THEN <<cur>>
  ELSE IF s[1] = "\n" THEN <<cur>> \o SplitLines(Tail(s), <<>>)
  ELSE SplitLines(Tail(s), Append(cur, s[1]))

RECURSIVE UpTo(_, _)
UpTo(s, stops) ==
  IF s = <<>> \/ s[1] \in stops THEN <<>>
  ELSE <<s[1]>> \o UpTo(Tail(s), stops)

\* splitHeaderLine: the leading token of the record's first line
splitHeaderLine(block) == UpTo(block, {" ", "\n", "\t"})

RECURSIVE NonBlank(_)
NonBlank(ls) ==
  IF ls = <<>> THEN <<>>
  ELSE IF IsBlank(ls[1]) THEN NonBlank(Tail(ls))
  ELSE <<ls[1]>> \o NonBlank(Tail(ls))

\* parseObject: the lines after the header line are the field assignments
parseObject(text, obj) ==
  [obj EXCEPT !.fields = NonBlank(Tail(SplitLines(text, <<>>)))]

\* mutant: blank blocks are not skipped
RECURSIVE parseBlocks_KeepBlank(_)
parseBlocks_KeepBlank(blocks) ==
  IF blocks = <<>> THEN <<>>
  ELSE LET p == ParseInt(splitHeaderLine(blocks[1]))
           id == IF p.ok THEN p.val ELSE 0
       IN  <<parseObject(blocks[1], [ID |-> id, fields |-> <<>>])>>
             \o parseBlocks_KeepBlank(Tail(blocks))

\* mutant: a block whose header is not an integer is dropped
RECURSIVE parseBlocks_DropMalformed(_)
parseBlocks_DropMalformed(blocks) ==
  IF blocks = <<>> THEN <<>>
  ELSE IF IsBlank(blocks[1]) \/ ~ParseInt(splitHeaderLine(blocks[1])).ok
       THEN parseBlocks_DropMalformed(Tail(blocks))
  ELSE <<parseObject(blocks[1],
                     [ID |-> ParseInt(splitHeaderLine(blocks[1])).val,
                      fields |-> <<>>])>>
         \o parseBlocks_DropMalformed(Tail(blocks))

RECURSIVE parseBlocks(_)
parseBlocks(blocks) ==
  IF blocks = <<>> THEN <<>>
  ELSE IF IsBlank(blocks[1]) THEN parseBlocks(Tail(blocks))
  ELSE LET idStr == splitHeaderLine(blocks[1])
           p == ParseInt(idStr)
           id == IF p.ok THEN p.val ELSE 0
       IN  <<parseObject(blocks[1], [ID |-> id, fields |-> <<>>])>>
             \o parseBlocks(Tail(blocks))

parseTCPContentRules(response) == parseBlocks(SplitBlank(response, <<>>))

parseBackendSwitchingRules(response) == parseBlocks(SplitBlank(response, <<>>))

----------------------------------------------------------------------------
(* The configuration engine: per view (committed "" or transaction) and    *)
(* per scope an ordered list of rules, each rule one field line.           *)

EScopes ==
  {<<"service", "tcpreqcont">>, <<"farm", "tcpreqcont">>,
   <<"farm", "tcprspcont">>, <<"service", "usefarm">>} \X ParentNames

EKey(lt, rt, parent) == <<<<lt, rt>>, parent>>

RenderBlock(i, line) == FormatInt(i) \o <<"\n">> \o line

RECURSIVE RenderFrom(_, _)
RenderFrom(rules, i) ==
  IF i > Len(rules) THEN <<>>
  ELSE RenderBlock(i, rules[i]) \o <<"\n", "\n">> \o RenderFrom(rules, i + 1)

\* run(commandName, transactionID, args...) for the read commands
executeLBCTL(engine, command, transaction, args) ==
  LET key == EKey(command.lt, command.rt, args[1])
      rules == engine.cfg[transaction][key]
  IN  IF key \notin EScopes THEN [err |-> "engine", out |-> <<>>]
      ELSE IF command.op = "dump"
           THEN [err |-> "none", out |-> RenderFrom(rules, 1)]
      ELSE LET p == ParseInt(args[2])
           IN  IF p.ok /\ p.val \in 1..Len(rules)
               THEN [err |-> "none",
                     out |-> RenderBlock(p.val, rules[p.val]) \o <<"\n">>]
               ELSE [err |-> "notfound", out |-> <<>>]

\* currentVersion(transactionID): the committed version, or the baseline
\* the transaction was opened against
currentVersion(engine, transaction) ==
  IF transaction = "" THEN engine.version ELSE engine.base[transaction]

InsertAt(s, i, x) == SubSeq(s, 1, i - 1) \o <<x>> \o SubSeq(s, i, Len(s))

RemoveAt(s, i) == SubSeq(s, 1, i - 1) \o SubSeq(s, i + 1, Len(s))

FieldLine(data) == IF data.fields = <<>> THEN <<>> ELSE data.fields[1]

\* the engine's create/edit/delete of rule `name` under a scope, guarded by
\* the concurrency token (transaction, or the committed version)
engineWrite(engine, op, name, objType, parent, parentType, line, transaction, version) ==
  LET key == EKey(parentType, objType, parent)
      rules == engine.cfg[transaction][key]
      p == ParseInt(name)
      fits == IF op = "create" THEN p.ok /\ p.val \in 1..(Len(rules) + 1)
              ELSE p.ok /\ p.val \in 1..Len(rules)
      new == IF op = "create" THEN InsertAt(rules, p.val, line)
             ELSE IF op = "edit" THEN [rules EXCEPT ![p.val] = line]
             ELSE RemoveAt(rules, p.val)
  IN  IF key \notin EScopes THEN [err |-> "engine", engine |-> engine]
      ELSE IF transaction = "" /\ version # engine.version
           THEN [err |-> "conflict", engine |-> engine]
      ELSE IF ~fits
           THEN [err |-> IF op = "create" THEN "engine" ELSE "notfound",
                 engine |-> engine]
      ELSE [err |-> "none",
            engine |-> [engine EXCEPT
                          !.cfg[transaction][key] = new,
                          !.version = IF transaction = "" THEN @ + 1 ELSE @]]

\* exactly one of transactionID and version names the concurrency token
TokenOK(transactionID, version) == (transactionID = "") # (version = 0)

----------------------------------------------------------------------------
(* The hierarchical cache.  entries is a set of records [k, data, ver]     *)
(* with at most one record per key k; ver is the version the version       *)
(* service reported when the entry was stored (kept for the record only:   *)
(* no handler reads it).  Version is the last known version per            *)
(* transaction.                                                            *)

CKey(sub, kind, id, name, ptype, tx) ==
  [sub |-> sub, kind |-> kind, id |-> id, name |-> name, ptype |-> ptype, tx |-> tx]

Lookup(cache, k) ==
  IF cache.enabled /\ \E e \in cache.entries : e.k = k
  THEN LET e == CHOOSE x \in cache.entries : x.k = k
       IN  [found |-> TRUE, data |-> e.data, ver |-> e.ver]
  ELSE [found |-> FALSE, data |-> <<>>, ver |-> 0]

Store(cache, k, data, ver) ==
  IF ~cache.enabled THEN cache
  ELSE [cache EXCEPT !.entries =
          {e \in @ : e.k # k} \cup {[k |-> k, data |-> data, ver |-> ver]}]

\* Get(scope, txID) -> (collection, found)
Get(cache, sub, name, ptype, tx) == Lookup(cache, CKey(sub, "all", 0, name, ptype, tx))

\* GetOne(id, scope, txID) -> (entity, found)
GetOne(cache, sub, id, name, ptype, tx) ==
  Lookup(cache, CKey(sub, "one", id, name, ptype, tx))

\* SetAll(scope, txID, collection)
SetAll(cache, sub, name, ptype, tx, data, ver) ==
  Store(cache, CKey(sub, "all", 0, name, ptype, tx), data, ver)

\* Set(id, scope, txID, entity)
Set(cache, sub, id, name, ptype, tx, data, ver) ==
  Store(cache, CKey(sub, "one", id, name, ptype, tx), data, ver)

\* InvalidateParent / InvalidateFrontend / InvalidateBackend: drop every
\* collection and single-item entry of the scope within the transaction
InvalidateParent(cache, sub, tx, name, ptype) ==
  IF ~cache.enabled THEN cache
  ELSE [cache EXCEPT !.entries =
          {e \in @ : ~(e.k.sub = sub /\ e.k.tx = tx /\ e.k.name = name
                       /\ e.k.ptype = ptype)}]

\* Cache.Version.Get(transactionID)
VersionGet(cache, tx) == cache.Version[tx]

\* GetVersion(transactionID): asks the version service; the cache keeps the
\* answer as the transaction's last known version
GetVersion(c, transactionID) ==
  LET v == currentVersion(c.engine, transactionID)
  IN  [v |-> v,
       c |-> IF c.Cache.enabled
             THEN [c EXCEPT !.Cache.Version[transactionID] = v]
             ELSE c]

\* Scope resolver: parent type -> engine parent token ("" = unrecognized)
typeToLbctlType(parentType) ==
  IF parentType = "frontend" THEN "service"
  ELSE IF parentType = "backend" THEN "farm"
  ELSE ""

\* createObject / editObject / deleteObject: the token check, then the
\* engine command
writeObject(c, op, name, objType, parent, parentType, data, transactionID, version) ==
  IF ~TokenOK(transactionID, version)
  THEN [c |-> c, err |-> "validation", cmds |-> 0]
  ELSE LET w == engineWrite(c.engine, op, name, objType, parent, parentType,
                            FieldLine(data), transactionID, version)
       IN  [c |-> [c EXCEPT !.engine = w.engine], err |-> w.err, cmds |-> 1]

createObject(c, name, objType, parent, parentType, data, transactionID, version) ==
  writeObject(c, "create", name, objType, parent, parentType, data, transactionID, version)

editObject(c, name, objType, parent, parentType, data, ondisk, transactionID, version) ==
  writeObject(c, "edit", name, objType, parent, parentType, data, transactionID, version)

deleteObject(c, name, objType, parent, parentType, transactionID, version) ==
  writeObject(c, "delete", name, objType, parent, parentType,
              [fields |-> <<>>], transactionID, version)

\* data.Validate(strfmt.Default)
Validate(data) == data.valid

----------------------------------------------------------------------------
(* Handler results: the client after the call, the error class, the data   *)
(* and version returned, and what the call did (cache lookups, cache       *)
(* stores, invalidations, engine commands run, whether it was answered     *)
(* from the cache and the stored version of the entry it was answered      *)
(* from).                                                                  *)

Fail(c, err, lookups, stores, cmds) ==
  [c |-> c, err |-> err, data |-> <<>>, version |-> 0, hit |-> FALSE, popVer |-> 0,
   lookups |-> lookups, stores |-> stores, invals |-> 0, cmds |-> cmds]

Hit(c, got, transactionID) ==
  [c |-> c, err |-> "none", data |-> got.data,
   version |-> VersionGet(c.Cache, transactionID), hit |-> TRUE, popVer |-> got.ver,
   lookups |-> 1, stores |-> 0, invals |-> 0, cmds |-> 0]

Miss(c, data, v, lookups, stores) ==
  [c |-> c, err |-> "none", data |-> data, version |-> v, hit |-> FALSE, popVer |-> 0,
   lookups |-> lookups, stores |-> stores, invals |-> 0, cmds |-> 1]

Done(c, r, invals, cmds) ==
  [c |-> c, err |-> "none", data |-> <<>>, version |-> 0, hit |-> r.hit,
   popVer |-> r.popVer, lookups |-> r.lookups, stores |-> r.stores,
   invals |-> invals, cmds |-> cmds]

B2N(b) == IF b THEN 1 ELSE 0

----------------------------------------------------------------------------
(* TCP content rules: configuration/tcp_content_rule.go *)

\* the sub-cache a rule type selects; "" when the rule type selects none
tcpRuleCache(ruleType) ==
  IF ruleType = "request" THEN "TcpContentRequestRules"
  ELSE IF ruleType = "response" THEN "TcpContentResponseRules"
  ELSE ""

\* the request cache is keyed by parent name and parent type, the response
\* cache by parent name alone
tcpKeyType(ruleType, parentType) == IF ruleType = "request" THEN parentType ELSE ""

\* mutant: the response check names the wrong parent type
tcpScopeInvalid_BackendResponse(parentType, ruleType) ==
  \/ typeToLbctlType(parentType) = ""
  \/ (ruleType = "response" /\ parentType = "backend")
  \/ (ruleType \notin {"request", "response"})

tcpRuleToken(ruleType) ==
  IF ruleType = "request" THEN "tcpreqcont"
  ELSE IF ruleType = "response" THEN "tcprspcont"
  ELSE ""

\* the three rejections of the scope resolver
tcpScopeInvalid(parentType, ruleType) ==
  \/ typeToLbctlType(parentType) = ""
  \/ (ruleType = "response" /\ parentType = "frontend")
  \/ tcpRuleToken(ruleType) = ""

lookupTCPRules(c, parentType, parentName, ruleType, transactionID) ==
  IF c.Cache.enabled /\ tcpRuleCache(ruleType) # ""
  THEN Get(c.Cache, tcpRuleCache(ruleType), parentName,
           tcpKeyType(ruleType, parentType), transactionID)
  ELSE [found |-> FALSE, data |-> <<>>, ver |-> 0]

lookupTCPRule(c, id, parentType, parentName, ruleType, transactionID) ==
  IF c.Cache.enabled /\ tcpRuleCache(ruleType) # ""
  THEN GetOne(c.Cache, tcpRuleCache(ruleType), id, parentName,
              tcpKeyType(ruleType, parentType), transactionID)
  ELSE [found |-> FALSE, data |-> <<>>, ver |-> 0]

storeTCPRules(c, parentType, parentName, ruleType, transactionID, tcpRules, v) ==
  IF c.Cache.enabled /\ tcpRuleCache(ruleType) # ""
  THEN [c EXCEPT !.Cache = SetAll(@, tcpRuleCache(ruleType), parentName,
                                  tcpKeyType(ruleType, parentType), transactionID,
                                  tcpRules, v)]
  ELSE c

storeTCPRule(c, id, parentType, parentName, ruleType, transactionID, tcpRule, v) ==
  IF c.Cache.enabled /\ tcpRuleCache(ruleType) # ""
  THEN [c EXCEPT !.Cache = Set(@, tcpRuleCache(ruleType), id, parentName,
                               tcpKeyType(ruleType, parentType), transactionID,
                               tcpRule, v)]
  ELSE c

\* mutant: the write does not invalidate
invalidateTCPRules_Skip(c, parentType, parentName, ruleType, transactionID) == c

\* mutant: the write invalidates the committed view, whatever its transaction
invalidateTCPRules_WrongTx(c, parentType, parentName, ruleType, transactionID) ==
  IF c.Cache.enabled /\ tcpRuleCache(ruleType) # ""
  THEN [c EXCEPT !.Cache = InvalidateParent(@, tcpRuleCache(ruleType), "", parentName,
                                            tcpKeyType(ruleType, parentType))]
  ELSE c

\* mutant: the write invalidates the rule type's entries of the whole
\* transaction, whatever their parent
invalidateTCPRules_AllParents(c, parentType, parentName, ruleType, transactionID) ==
  IF c.Cache.enabled /\ tcpRuleCache(ruleType) # ""
  THEN [c EXCEPT !.Cache.entries =
          {e \in @ : ~(e.k.sub = tcpRuleCache(ruleType) /\ e.k.tx = transactionID)}]
  ELSE c

invalidateTCPRules(c, parentType, parentName, ruleType, transactionID) ==
  IF c.Cache.enabled /\ tcpRuleCache(ruleType) # ""
  THEN [c EXCEPT !.Cache = InvalidateParent(@, tcpRuleCache(ruleType), transactionID,
                                            parentName,
                                            tcpKeyType(ruleType, parentType))]
  ELSE c

\* mutant: the validation result is dropped
validationFails_Off(c, data) == FALSE

\* if c.UseValidation { data.Validate(...) != nil }
validationFails(c, data) == c.UseValidation /\ ~Validate(data)

\* mutant: the (empty) result is stored before the scope is checked
GetTCPContentRules_StoreUnchecked(c, parentType, parentName, ruleType, transactionID) ==
  LET got == lookupTCPRules(c, parentType, parentName, ruleType, transactionID)
      nl == B2N(c.Cache.enabled /\ tcpRuleCache(ruleType) # "")
      run == executeLBCTL(c.engine,
                          [lt |-> typeToLbctlType(parentType),
                           rt |-> tcpRuleToken(ruleType), op |-> "dump"],
                          "", <<parentName>>)
      tcpRules == parseTCPContentRules(run.out)
      gv == GetVersion(c, transactionID)
      c2 == storeTCPRules(gv.c, parentType, parentName, ruleType, transactionID,
                          tcpRules, gv.v)
      c0 == storeTCPRules(c, parentType, parentName, ruleType, transactionID, <<>>, 0)
  IN  IF got.found THEN Hit(c, got, transactionID)
      ELSE IF tcpScopeInvalid(parentType, ruleType)
           THEN Fail(c0, "validation", nl, B2N(c0 # c), 0)
      ELSE IF run.err # "none" THEN Fail(c, run.err, nl, 0, 1)
      ELSE Miss(c2, tcpRules, gv.v, nl, B2N(c2 # gv.c))

GetTCPContentRules(c, parentType, parentName, ruleType, transactionID) ==
  LET got == lookupTCPRules(c, parentType, parentName, ruleType, transactionID)
      nl == B2N(c.Cache.enabled /\ tcpRuleCache(ruleType) # "")
      run == executeLBCTL(c.engine,
                          [lt |-> typeToLbctlType(parentType),
                           rt |-> tcpRuleToken(ruleType), op |-> "dump"],
                          "", <<parentName>>)
      tcpRules == parseTCPContentRules(run.out)
      gv == GetVersion(c, transactionID)
      c2 == storeTCPRules(gv.c, parentType, parentName, ruleType, transactionID,
                          tcpRules, gv.v)
  IN  IF got.found THEN Hit(c, got, transactionID)
      ELSE IF tcpScopeInvalid(parentType, ruleType) THEN Fail(c, "validation", nl, 0, 0)
      ELSE IF run.err # "none" THEN Fail(c, run.err, nl, 0, 1)
      ELSE Miss(c2, tcpRules, gv.v, nl, B2N(c2 # gv.c))

GetTCPContentRule(c, id, parentType, parentName, ruleType, transactionID) ==
  LET got == lookupTCPRule(c, id, parentType, parentName, ruleType, transactionID)
      nl == B2N(c.Cache.enabled /\ tcpRuleCache(ruleType) # "")
      run == executeLBCTL(c.engine,
                          [lt |-> typeToLbctlType(parentType),
                           rt |-> tcpRuleToken(ruleType), op |-> "show"],
                          "", <<parentName, FormatInt(id)>>)
      tcpRule == <<parseObject(run.out, [ID |-> id, fields |-> <<>>])>>
      gv == GetVersion(c, transactionID)
      c2 == storeTCPRule(gv.c, id, parentType, parentName, ruleType, transactionID,
                         tcpRule, gv.v)
  IN  IF got.found THEN Hit(c, got, transactionID)
      ELSE IF tcpScopeInvalid(parentType, ruleType) THEN Fail(c, "validation", nl, 0, 0)
      ELSE IF run.err # "none" THEN Fail(c, run.err, nl, 0, 1)
      ELSE Miss(c2, tcpRule, gv.v, nl, B2N(c2 # gv.c))

\* mutant: the scope is invalidated whether or not the engine command
\* succeeded
DeleteTCPContentRule_InvalidateFirst(c, id, parentType, parentName, ruleType, transactionID, version) ==
  LET w == deleteObject(c, FormatInt(id), tcpRuleToken(ruleType), parentName,
                        typeToLbctlType(parentType), transactionID, version)
      c2 == invalidateTCPRules(w.c, parentType, parentName, ruleType, transactionID)
  IN  IF tcpScopeInvalid(parentType, ruleType) THEN Fail(c, "validation", 0, 0, 0)
      ELSE IF w.err # "none" THEN Fail(c2, w.err, 0, 0, w.cmds)
      ELSE Done(c2, Fail(c, "none", 0, 0, 0), B2N(c.Cache.enabled), w.cmds)

DeleteTCPContentRule(c, id, parentType, parentName, ruleType, transactionID, version) ==
  LET w == deleteObject(c, FormatInt(id), tcpRuleToken(ruleType), parentName,
                        typeToLbctlType(parentType), transactionID, version)
      c2 == invalidateTCPRules(w.c, parentType, parentName, ruleType, transactionID)
  IN  IF tcpScopeInvalid(parentType, ruleType) THEN Fail(c, "validation", 0, 0, 0)
      ELSE IF w.err # "none" THEN Fail(w.c, w.err, 0, 0, w.cmds)
      ELSE Done(c2, Fail(c, "none", 0, 0, 0), B2N(c.Cache.enabled), w.cmds)

CreateTCPContentRule(c, parentType, parentName, ruleType, data, transactionID, version) ==
  LET w == createObject(c, FormatInt(data.ID), tcpRuleToken(ruleType), parentName,
                        typeToLbctlType(parentType), data, transactionID, version)
      c2 == invalidateTCPRules(w.c, parentType, parentName, ruleType, transactionID)
  IN  IF validationFails(c, data) THEN Fail(c, "validation", 0, 0, 0)
      ELSE IF tcpScopeInvalid(parentType, ruleType) THEN Fail(c, "validation", 0, 0, 0)
      ELSE IF w.err # "none" THEN Fail(w.c, w.err, 0, 0, w.cmds)
      ELSE Done(c2, Fail(c, "none", 0, 0, 0), B2N(c.Cache.enabled), w.cmds)

EditTCPContentRule(c, id, parentType, parentName, ruleType, data, transactionID, version) ==
  LET ondiskBr == GetTCPContentRule(c, id, parentType, parentName, ruleType,
                                    transactionID)
      w == editObject(ondiskBr.c, FormatInt(data.ID), tcpRuleToken(ruleType),
                      parentName, typeToLbctlType(parentType), data, ondiskBr.data,
                      transactionID, version)
      c2 == invalidateTCPRules(w.c, parentType, parentName, ruleType, transactionID)
  IN  IF validationFails(c, data) THEN Fail(c, "validation", 0, 0, 0)
      ELSE IF tcpScopeInvalid(parentType, ruleType) THEN Fail(c, "validation", 0, 0, 0)
      ELSE IF ondiskBr.err # "none" THEN [ondiskBr EXCEPT !.data = <<>>]
      ELSE IF w.err # "none"
           THEN [Fail(w.c, w.err, ondiskBr.lookups, ondiskBr.stores,
                      ondiskBr.cmds + w.cmds)
                   EXCEPT !.hit = ondiskBr.hit, !.popVer = ondiskBr.popVer]
      ELSE Done(c2, ondiskBr, B2N(c.Cache.enabled), ondiskBr.cmds + w.cmds)

----------------------------------------------------------------------------
(* Backend switching rules: src/unnamed/part_000 *)

GetBackendSwitchingRules(c, frontend, transactionID) ==
  LET got == IF c.Cache.enabled
             THEN Get(c.Cache, "BackendSwitchingRules", frontend, "", transactionID)
             ELSE [found |-> FALSE, data |-> <<>>, ver |-> 0]
      nl == B2N(c.Cache.enabled)
      run == executeLBCTL(c.engine, [lt |-> "service", rt |-> "usefarm", op |-> "dump"],
                          transactionID, <<frontend>>)
      bckRules == parseBackendSwitchingRules(run.out)
      gv == GetVersion(c, transactionID)
      c2 == IF c.Cache.enabled
            THEN [gv.c EXCEPT !.Cache = SetAll(@, "BackendSwitchingRules", frontend, "",
                                               transactionID, bckRules, gv.v)]
            ELSE gv.c
  IN  IF got.found THEN Hit(c, got, transactionID)
      ELSE IF run.err # "none" THEN Fail(c, run.err, nl, 0, 1)
      ELSE Miss(c2, bckRules, gv.v, nl, B2N(c2 # gv.c))

GetBackendSwitchingRule(c, id, frontend, transactionID) ==
  LET got == IF c.Cache.enabled
             THEN GetOne(c.Cache, "BackendSwitchingRules", id, frontend, "",
                         transactionID)
             ELSE [found |-> FALSE, data |-> <<>>, ver |-> 0]
      nl == B2N(c.Cache.enabled)
      run == executeLBCTL(c.engine, [lt |-> "service", rt |-> "usefarm", op |-> "show"],
                          transactionID, <<frontend, FormatInt(id)>>)
      bckRule == <<parseObject(run.out, [ID |-> id, fields |-> <<>>])>>
      gv == GetVersion(c, transactionID)
      c2 == IF c.Cache.enabled
            THEN [gv.c EXCEPT !.Cache = Set(@, "BackendSwitchingRules", id, frontend, "",
                                            transactionID, bckRule, gv.v)]
            ELSE gv.c
  IN  IF got.found THEN Hit(c, got, transactionID)
      ELSE IF run.err # "none" THEN Fail(c, run.err, nl, 0, 1)
      ELSE Miss(c2, bckRule, gv.v, nl, B2N(c2 # gv.c))

invalidateBackendSwitchingRules(c, frontend, transactionID) ==
  IF c.Cache.enabled
  THEN [c EXCEPT !.Cache = InvalidateParent(@, "BackendSwitchingRules", transactionID,
                                            frontend, "")]
  ELSE c

DeleteBackendSwitchingRule(c, id, frontend, transactionID, version) ==
  LET w == deleteObject(c, FormatInt(id), "usefarm", frontend, "service",
                        transactionID, version)
      c2 == invalidateBackendSwitchingRules(w.c, frontend, transactionID)
  IN  IF w.err # "none" THEN Fail(w.c, w.err, 0, 0, w.cmds)
      ELSE Done(c2, Fail(c, "none", 0, 0, 0), B2N(c.Cache.enabled), w.cmds)

CreateBackendSwitchingRule(c, frontend, data, transactionID, version) ==
  LET w == createObject(c, FormatInt(data.ID), "usefarm", frontend, "service", data,
                        transactionID, version)
      c2 == invalidateBackendSwitchingRules(w.c, frontend, transactionID)
  IN  IF validationFails(c, data) THEN Fail(c, "validation", 0, 0, 0)
      ELSE IF w.err # "none" THEN Fail(w.c, w.err, 0, 0, w.cmds)
      ELSE Done(c2, Fail(c, "none", 0, 0, 0), B2N(c.Cache.enabled), w.cmds)

EditBackendSwitchingRule(c, id, frontend, data, transactionID, version) ==
  LET ondiskBr == GetBackendSwitchingRule(c, id, frontend, transactionID)
      w == editObject(ondiskBr.c, FormatInt(data.ID), "usefarm", frontend, "service",
                      data, ondiskBr.data, transactionID, version)
      c2 == invalidateBackendSwitchingRules(w.c, frontend, transactionID)
  IN  IF validationFails(c, data) THEN Fail(c, "validation", 0, 0, 0)
      ELSE IF ondiskBr.err # "none" THEN [ondiskBr EXCEPT !.data = <<>>]
      ELSE IF w.err # "none"
           THEN [Fail(w.c, w.err, ondiskBr.lookups, ondiskBr.stores,
                      ondiskBr.cmds + w.cmds)
                   EXCEPT !.hit = ondiskBr.hit, !.popVer = ondiskBr.popVer]
      ELSE Done(c2, ondiskBr, B2N(c.Cache.enabled), ondiskBr.cmds + w.cmds)

----------------------------------------------------------------------------
(* The calls of one caller.  client is the client under study; shadow is   *)
(* a client with the cache disabled that is given the same calls against   *)
(* its own copy of the engine.  pend and seen are history: pend holds the  *)
(* reads not yet issued since a successful write of their scope (with      *)
(* whether that write dropped a cache entry), seen the collection a        *)
(* scope's latest successful collection read returned, reset by every      *)
(* write call to the scope.                                                *)

Scope(fam, ptype, name, rtype, tx) ==
  [fam |-> fam, ptype |-> ptype, name |-> name, rtype |-> rtype, tx |-> tx]

TCPScope(parentType, parentName, ruleType, tx) ==
  Scope("tcp", parentType, parentName, ruleType, tx)

BSRScope(frontend, tx) == Scope("bsr", "frontend", frontend, "switching", tx)

AllScopes ==
  {TCPScope(k[1], pn, k[2], tx) : k \in TCPKinds, pn \in ParentNames, tx \in TxIds}
    \cup {BSRScope(pn, tx) : pn \in ParentNames, tx \in TxIds}

\* what the scope resolver is specified to accept
ValidScope(sc) ==
  \/ sc.fam = "bsr"
  \/ /\ sc.ptype \in {"frontend", "backend"}
     /\ sc.rtype \in {"request", "response"}
     /\ ~(sc.rtype = "response" /\ sc.ptype = "frontend")

Reads == {"getAll", "getOne"}
Writes == {"create", "edit", "delete"}

\* the call of the given kind on the scope
Call(c, kind, id, sc, data, version) ==
  IF sc.fam = "tcp"
  THEN CASE kind = "getAll" ->
              GetTCPContentRules(c, sc.ptype, sc.name, sc.rtype, sc.tx)
         [] kind = "getOne" ->
              GetTCPContentRule(c, id, sc.ptype, sc.name, sc.rtype, sc.tx)
         [] kind = "delete" ->
              DeleteTCPContentRule(c, id, sc.ptype, sc.name, sc.rtype, sc.tx, version)
         [] kind = "create" ->
              CreateTCPContentRule(c, sc.ptype, sc.name, sc.rtype, data, sc.tx, version)
         [] kind = "edit" ->
              EditTCPContentRule(c, id, sc.ptype, sc.name, sc.rtype, data, sc.tx,
                                 version)
  ELSE CASE kind = "getAll" -> GetBackendSwitchingRules(c, sc.name, sc.tx)
         [] kind = "getOne" -> GetBackendSwitchingRule(c, id, sc.name, sc.tx)
         [] kind = "delete" ->
              DeleteBackendSwitchingRule(c, id, sc.name, sc.tx, version)
         [] kind = "create" ->
              CreateBackendSwitchingRule(c, sc.name, data, sc.tx, version)
         [] kind = "edit" ->
              EditBackendSwitchingRule(c, id, sc.name, data, sc.tx, version)

InitEngine ==
  [version |-> 1,
   base |-> [t \in TxIds \ {""} |-> 1],
   cfg |-> [t \in TxIds |-> [k \in EScopes |-> << <<"a">> >>]]]

\* no text has been handed to the record parser
NotParsed == [done |-> FALSE, by |-> "", out |-> <<>>]

\* no concurrent caller is inside a call
NoProcs == <<>>

NewClient(enabled, useValidation) ==
  [Cache |-> [enabled |-> enabled, entries |-> {}, Version |-> [t \in TxIds |-> 0]],
   UseValidation |-> useValidation,
   engine |-> InitEngine]

\* no version, the committed version, a version that is not the committed one
Versions == {0, client.engine.version, client.engine.version + 1}

PreRead(kind, r) == kind = "edit" /\ r.lookups + r.cmds > 0

Step(bound, kind, sc, ra, rUa) ==
  LET r == ra
      rU == rUa
      isRead == kind \in Reads \/ PreRead(kind, r)
      readKind == IF kind = "getAll" THEN "all" ELSE "one"
      old == {e \in seen : e.sc = sc}
      dropped == client.Cache.entries \ r.c.Cache.entries
  IN
  /\ steps < bound
  /\ steps' = steps + 1
  /\ client' = r.c
  /\ shadow' = rU.c
  /\ pend' = IF kind \in Writes /\ r.err = "none"
             THEN {p \in pend : p.sc # sc}
                    \cup {[kind |-> "all", sc |-> sc,
                           had |-> \E e \in dropped : e.k.kind = "all"],
                          [kind |-> "one", sc |-> sc,
                           had |-> \E e \in dropped : e.k.kind = "one"]}
             ELSE IF isRead THEN {p \in pend : ~(p.sc = sc /\ p.kind = readKind)}
             ELSE pend
  /\ seen' = IF kind \in Writes THEN seen \ old
             ELSE IF kind = "getAll" /\ r.err = "none"
             THEN (seen \ old) \cup {[sc |-> sc, data |-> r.data]}
             ELSE seen
  /\ UNCHANGED <<blob, parsed, procs>>

DoGetTCPContentRules(PN, TX, bound) ==
  \E k \in TCPKinds, pn \in PN, tx \in TX :
    Step(bound, "getAll", TCPScope(k[1], pn, k[2], tx),
         GetTCPContentRules(client, k[1], pn, k[2], tx),
         GetTCPContentRules(shadow, k[1], pn, k[2], tx))

DoGetTCPContentRule(PN, TX, bound) ==
  \E id \in IDs, k \in TCPKinds, pn \in PN, tx \in TX :
    Step(bound, "getOne", TCPScope(k[1], pn, k[2], tx),
         GetTCPContentRule(client, id, k[1], pn, k[2], tx),
         GetTCPContentRule(shadow, id, k[1], pn, k[2], tx))

DoDeleteTCPContentRule(PN, TX, bound) ==
  \E id \in IDs, k \in TCPKinds, pn \in PN, tx \in TX, version \in Versions :
    Step(bound, "delete", TCPScope(k[1], pn, k[2], tx),
         DeleteTCPContentRule(client, id, k[1], pn, k[2], tx, version),
         DeleteTCPContentRule(shadow, id, k[1], pn, k[2], tx, version))

DoCreateTCPContentRule(PN, TX, bound) ==
  \E k \in TCPKinds, pn \in PN, data \in Payloads, tx \in TX, version \in Versions :
    Step(bound, "create", TCPScope(k[1], pn, k[2], tx),
         CreateTCPContentRule(client, k[1], pn, k[2], data, tx, version),
         CreateTCPContentRule(shadow, k[1], pn, k[2], data, tx, version))

DoEditTCPContentRule(PN, TX, bound) ==
  \E id \in IDs, k \in TCPKinds, pn \in PN, data \in Payloads, tx \in TX,
     version \in Versions :
    Step(bound, "edit", TCPScope(k[1], pn, k[2], tx),
         EditTCPContentRule(client, id, k[1], pn, k[2], data, tx, version),
         EditTCPContentRule(shadow, id, k[1], pn, k[2], data, tx, version))

DoGetBackendSwitchingRules(PN, TX, bound) ==
  \E fe \in PN, tx \in TX :
    Step(bound, "getAll", BSRScope(fe, tx),
         GetBackendSwitchingRules(client, fe, tx),
         GetBackendSwitchingRules(shadow, fe, tx))

DoGetBackendSwitchingRule(PN, TX, bound) ==
  \E id \in IDs, fe \in PN, tx \in TX :
    Step(bound, "getOne", BSRScope(fe, tx),
         GetBackendSwitchingRule(client, id, fe, tx),
         GetBackendSwitchingRule(shadow, id, fe, tx))

DoDeleteBackendSwitchingRule(PN, TX, bound) ==
  \E id \in IDs, fe \in PN, tx \in TX, version \in Versions :
    Step(bound, "delete", BSRScope(fe, tx),
         DeleteBackendSwitchingRule(client, id, fe, tx, version),
         DeleteBackendSwitchingRule(shadow, id, fe, tx, version))

DoCreateBackendSwitchingRule(PN, TX, bound) ==
  \E fe \in PN, data \in Payloads, tx \in TX, version \in Versions :
    Step(bound, "create", BSRScope(fe, tx),
         CreateBackendSwitchingRule(client, fe, data, tx, version),
         CreateBackendSwitchingRule(shadow, fe, data, tx, version))

DoEditBackendSwitchingRule(PN, TX, bound) ==
  \E id \in IDs, fe \in PN, data \in Payloads, tx \in TX, version \in Versions :
    Step(bound, "edit", BSRScope(fe, tx),
         EditBackendSwitchingRule(client, id, fe, data, tx, version),
         EditBackendSwitchingRule(shadow, id, fe, data, tx, version))

Init ==
  /\ \E enabled \in BOOLEAN, useValidation \in BOOLEAN :
       /\ client = NewClient(enabled, useValidation)
       /\ shadow = NewClient(FALSE, useValidation)
  /\ pend = {}
  /\ seen = {}
  /\ steps = 0
  /\ blob = <<>>
  /\ parsed = NotParsed
  /\ procs = NoProcs

NextOn(PN, TX, bound) ==
  \/ DoGetTCPContentRules(PN, TX, bound)
  \/ DoGetTCPContentRule(PN, TX, bound)
  \/ DoDeleteTCPContentRule(PN, TX, bound)
  \/ DoCreateTCPContentRule(PN, TX, bound)
  \/ DoEditTCPContentRule(PN, TX, bound)
  \/ DoGetBackendSwitchingRules(PN, TX, bound)
  \/ DoGetBackendSwitchingRule(PN, TX, bound)
  \/ DoDeleteBackendSwitchingRule(PN, TX, bound)
  \/ DoCreateBackendSwitchingRule(PN, TX, bound)
  \/ DoEditBackendSwitchingRule(PN, TX, bound)

\* one caller, one parent name, the committed view and one transaction
Next == NextOn({"p1"}, TxIds, MaxSteps)

Spec == Init /\ [][Next]_vars

\* one caller, one transaction, two sibling parent names
NextSibling == NextOn(ParentNames, {"t1"}, MaxSteps)

SpecSibling == Init /\ [][NextSibling]_vars

\* one caller working on the committed view only, one call longer
NextVersion == NextOn({"p1"}, {""}, MaxStepsVersion)

SpecVersion == Init /\ [][NextVersion]_vars

----------------------------------------------------------------------------
(* The record parser on its own: a text is handed to one of the two        *)
(* parsers, once.                                                          *)

RECURSIVE TextsUpTo(_)
TextsUpTo(n) ==
  IF n = 0 THEN {<<>>}
  ELSE LET shorter == TextsUpTo(n - 1)
       IN  shorter \cup {Append(t, ch) : t \in shorter, ch \in BlobChars}

Blobs == TextsUpTo(MaxBlobLen) \cup {ScenarioBlob, MalformedBlob}

InitParser ==
  /\ client = NewClient(FALSE, FALSE)
  /\ shadow = NewClient(FALSE, FALSE)
  /\ pend = {}
  /\ seen = {}
  /\ steps = 0
  /\ blob \in Blobs
  /\ parsed = NotParsed
  /\ procs = NoProcs

DoParseTCPContentRules ==
  /\ ~parsed.done
  /\ parsed' = [done |-> TRUE, by |-> "tcp", out |-> parseTCPContentRules(blob)]
  /\ UNCHANGED <<client, shadow, pend, seen, steps, blob, procs>>

DoParseBackendSwitchingRules ==
  /\ ~parsed.done
  /\ parsed' = [done |-> TRUE, by |-> "bsr",
                out |-> parseBackendSwitchingRules(blob)]
  /\ UNCHANGED <<client, shadow, pend, seen, steps, blob, procs>>

NextParser == DoParseTCPContentRules \/ DoParseBackendSwitchingRules

SpecParser == InitParser /\ [][NextParser]_vars

----------------------------------------------------------------------------
(* Concurrent callers.  The handlers take no lock: a call is a sequence of *)
(* steps on the shared cache and engine (cache lookup, engine command,     *)
(* version fetch, cache store; engine write, invalidation), each atomic,   *)
(* and the steps of different callers interleave.  procs[p] is the         *)
(* position of caller p inside its call and the call's local variables.    *)

Callers == {"c1", "c2"}

\* number of calls the callers start in one behaviour
MaxConcCalls == 3

\* the scopes the callers share, each under one transaction
ConcScopes == {BSRScope("p1", "t1"), TCPScope("backend", "p1", "request", "")}

ConcPayload == [ID |-> 1, fields |-> << <<"b">> >>, valid |-> TRUE]

IdleProc ==
  [pc |-> "idle", op |-> "", sc |-> BSRScope("", ""), id |-> 0, version |-> 0,
   out |-> <<>>, v |-> 0]

\* the concurrency token of a write on the scope: its transaction, or the
\* committed version when it has none
ConcVersion(c, sc) == IF sc.tx = "" THEN c.engine.version ELSE 0

\* if c.Cache.Enabled() { ... Get / GetOne ... }
stepLookup(c, op, sc, id) ==
  IF sc.fam = "tcp"
  THEN IF op = "getAll"
       THEN lookupTCPRules(c, sc.ptype, sc.name, sc.rtype, sc.tx)
       ELSE lookupTCPRule(c, id, sc.ptype, sc.name, sc.rtype, sc.tx)
  ELSE IF ~c.Cache.enabled THEN [found |-> FALSE, data |-> <<>>, ver |-> 0]
  ELSE IF op = "getAll"
       THEN Get(c.Cache, "BackendSwitchingRules", sc.name, "", sc.tx)
       ELSE GetOne(c.Cache, "BackendSwitchingRules", id, sc.name, "", sc.tx)

\* c.executeLBCTL(...-dump / ...-show, ...) and the decoding of its output
stepCommand(c, op, sc, id) ==
  LET run == executeLBCTL(c.engine,
                          [lt |-> IF sc.fam = "tcp" THEN typeToLbctlType(sc.ptype)
                                  ELSE "service",
                           rt |-> IF sc.fam = "tcp" THEN tcpRuleToken(sc.rtype)
                                  ELSE "usefarm",
                           op |-> IF op = "getAll" THEN "dump" ELSE "show"],
                          IF sc.fam = "tcp" THEN "" ELSE sc.tx,
                          IF op = "getAll" THEN <<sc.name>>
                          ELSE <<sc.name, FormatInt(id)>>)
  IN  [err |-> run.err,
       out |-> IF run.err # "none" THEN <<>>
               ELSE IF op = "getAll"
                    THEN IF sc.fam = "tcp" THEN parseTCPContentRules(run.out)
                         ELSE parseBackendSwitchingRules(run.out)
               ELSE <<parseObject(run.out, [ID |-> id, fields |-> <<>>])>>]

\* if c.Cache.Enabled() { ... SetAll / Set ... }
stepStore(c, op, sc, id, out, v) ==
  IF sc.fam = "tcp"
  THEN IF op = "getAll"
       THEN storeTCPRules(c, sc.ptype, sc.name, sc.rtype, sc.tx, out, v)
       ELSE storeTCPRule(c, id, sc.ptype, sc.name, sc.rtype, sc.tx, out, v)
  ELSE IF ~c.Cache.enabled THEN c
  ELSE IF op = "getAll"
       THEN [c EXCEPT !.Cache = SetAll(@, "BackendSwitchingRules", sc.name, "", sc.tx,
                                       out, v)]
       ELSE [c EXCEPT !.Cache = Set(@, "BackendSwitchingRules", id, sc.name, "", sc.tx,
                                    out, v)]

\* c.deleteObject / c.createObject / c.editObject
stepWrite(c, op, sc, id, ondisk, version) ==
  LET objType == IF sc.fam = "tcp" THEN tcpRuleToken(sc.rtype) ELSE "usefarm"
      parentType == IF sc.fam = "tcp" THEN typeToLbctlType(sc.ptype) ELSE "service"
  IN  IF op = "delete"
      THEN deleteObject(c, FormatInt(id), objType, sc.name, parentType, sc.tx, version)
      ELSE IF op = "create"
      THEN createObject(c, FormatInt(ConcPayload.ID), objType, sc.name, parentType,
                        ConcPayload, sc.tx, version)
      ELSE editObject(c, FormatInt(ConcPayload.ID), objType, sc.name, parentType,
                      ConcPayload, ondisk, sc.tx, version)

\* if c.Cache.Enabled() { ... InvalidateParent / InvalidateFrontend ... }
stepInvalidate(c, sc) ==
  IF sc.fam = "tcp" THEN invalidateTCPRules(c, sc.ptype, sc.name, sc.rtype, sc.tx)
  ELSE invalidateBackendSwitchingRules(c, sc.name, sc.tx)

ConcFrame == UNCHANGED <<shadow, seen, blob, parsed>>

\* a caller enters a read, or an edit (which begins with the single-item
\* read of its pre-image), and looks the cache up
CallLookup(self) ==
  \E op \in {"getAll", "getOne", "edit"}, sc \in ConcScopes, id \in IDs :
    LET got == stepLookup(client, op, sc, id)
        call == [IdleProc EXCEPT !.op = op, !.sc = sc, !.id = id,
                                 !.version = ConcVersion(client, sc)]
    IN  /\ procs[self].pc = "idle"
        /\ steps < MaxConcCalls
        /\ steps' = steps + 1
        /\ procs' = [procs EXCEPT ![self] =
                       IF ~got.found THEN [call EXCEPT !.pc = "command"]
                       ELSE IF op = "edit"
                            THEN [call EXCEPT !.pc = "write", !.out = got.data]
                       ELSE IdleProc]
        /\ UNCHANGED <<client, pend>>
        /\ ConcFrame

\* the read runs its engine command; an engine error ends the call
ReadCommand(self) ==
  LET me == procs[self]
      run == stepCommand(client, me.op, me.sc, me.id)
  IN  /\ me.pc = "command"
      /\ procs' = [procs EXCEPT ![self] =
                     IF run.err # "none" THEN IdleProc
                     ELSE [me EXCEPT !.pc = "version", !.out = run.out]]
      /\ UNCHANGED <<client, pend, steps>>
      /\ ConcFrame

\* v, err := c.GetVersion(transactionID)
ReadVersion(self) ==
  LET me == procs[self]
      gv == GetVersion(client, me.sc.tx)
  IN  /\ me.pc = "version"
      /\ client' = gv.c
      /\ procs' = [procs EXCEPT ![self] = [me EXCEPT !.pc = "store", !.v = gv.v]]
      /\ UNCHANGED <<pend, steps>>
      /\ ConcFrame

\* the read stores what it decoded and returns; an edit goes on to its write
ReadStore(self) ==
  LET me == procs[self]
  IN  /\ me.pc = "store"
      /\ client' = stepStore(client, me.op, me.sc, me.id, me.out, me.v)
      /\ procs' = [procs EXCEPT ![self] =
                     IF me.op = "edit" THEN [me EXCEPT !.pc = "write"] ELSE IdleProc]
      /\ UNCHANGED <<pend, steps>>
      /\ ConcFrame

\* a caller enters a delete or a create and runs its engine command
CallWrite(self) ==
  \E op \in {"delete", "create"}, sc \in ConcScopes, id \in IDs :
    LET w == stepWrite(client, op, sc, id, <<>>, ConcVersion(client, sc))
    IN  /\ procs[self].pc = "idle"
        /\ steps < MaxConcCalls
        /\ steps' = steps + 1
        /\ client' = w.c
        /\ procs' = [procs EXCEPT ![self] =
                       IF w.err # "none" THEN IdleProc
                       ELSE [IdleProc EXCEPT !.pc = "invalidate", !.op = op, !.sc = sc,
                                             !.id = id]]
        /\ UNCHANGED pend
        /\ ConcFrame

\* the edit runs its engine command with the pre-image it fetched
EditWrite(self) ==
  LET me == procs[self]
      w == stepWrite(client, "edit", me.sc, me.id, me.out, me.version)
  IN  /\ me.pc = "write"
      /\ client' = w.c
      /\ procs' = [procs EXCEPT ![self] =
                     IF w.err # "none" THEN IdleProc
                     ELSE [me EXCEPT !.pc = "invalidate"]]
      /\ UNCHANGED <<pend, steps>>
      /\ ConcFrame

\* the write invalidates its scope and returns
WriteInvalidate(self) ==
  LET me == procs[self]
  IN  /\ me.pc = "invalidate"
      /\ client' = stepInvalidate(client, me.sc)
      /\ procs' = [procs EXCEPT ![self] = IdleProc]
      /\ pend' = pend \cup {[kind |-> "write", sc |-> me.sc, had |-> TRUE]}
      /\ UNCHANGED steps
      /\ ConcFrame

InitConcurrent ==
  /\ client = NewClient(TRUE, FALSE)
  /\ shadow = NewClient(FALSE, FALSE)
  /\ pend = {}
  /\ seen = {}
  /\ steps = 0
  /\ blob = <<>>
  /\ parsed = NotParsed
  /\ procs = [p \in Callers |-> IdleProc]

NextConcurrent ==
  \E self \in Callers :
    \/ CallLookup(self)
    \/ ReadCommand(self)
    \/ ReadVersion(self)
    \/ ReadStore(self)
    \/ CallWrite(self)
    \/ EditWrite(self)
    \/ WriteInvalidate(self)

SpecConcurrent == InitConcurrent /\ [][NextConcurrent]_vars

----------------------------------------------------------------------------
(* Properties.  A property about "a call" is stated over every call the    *)
(* caller could make in the current state, by applying the handler to the  *)
(* current client.                                                         *)

AllKinds == Reads \cup Writes

Entries(c) == c.Cache.entries

\* C1: every TCP content rule operation called with ruleType "response" and
\* parentType "frontend" returns a ValidationError, and during the call no
\* cache lookup is made, no cache entry is created and no engine command is
\* run.
C1_ResponseFrontendRejected ==
  \A kind \in AllKinds, pn \in ParentNames, tx \in TxIds, id \in IDs,
     data \in Payloads, version \in Versions :
    LET r == Call(client, kind, id, TCPScope("frontend", pn, "response", tx), data,
                  version)
    IN  /\ r.err = "validation"
        /\ r.lookups = 0
        /\ r.stores = 0
        /\ r.cmds = 0
        /\ Entries(r.c) = Entries(client)

\* C1, the returned error alone: the call never returns data
C1_ResponseFrontendIsAnError ==
  \A kind \in AllKinds, pn \in ParentNames, tx \in TxIds, id \in IDs,
     data \in Payloads, version \in Versions :
    Call(client, kind, id, TCPScope("frontend", pn, "response", tx), data,
         version).err = "validation"

\* C2: with the cache enabled, after a create, edit or delete that returned
\* success for a scope under a transaction, the next collection read and the
\* next single-item read (for any id) of that scope under that transaction
\* miss the cache and run the engine command.
C2_ReadAfterWriteMisses ==
  client.Cache.enabled =>
    \A p \in pend :
      \A id \in IDs :
        LET r == Call(client, IF p.kind = "all" THEN "getAll" ELSE "getOne", id, p.sc,
                      <<>>, 0)
        IN  ~r.hit /\ r.cmds = 1

\* with the cache enabled a successful write has dropped a cached entry of
\* its scope, and the read of that kind has not been issued on the scope since
C2_Witness ==
  /\ client.Cache.enabled
  /\ \E p \in pend : p.had /\ p.sc.tx # ""

\* C3: a create, edit or delete issued under transaction T leaves every cache
\* entry keyed by another transaction, and the version cached for another
\* transaction, unchanged, so a cached read under T' returns what it
\* returned before the write.
C3_WriteLeavesOtherTransactions ==
  \A sc \in AllScopes, kind \in Writes, id \in IDs, data \in Payloads,
     version \in Versions :
    LET r == Call(client, kind, id, sc, data, version)
    IN  /\ {e \in Entries(r.c) : e.k.tx # sc.tx} = {e \in Entries(client) : e.k.tx # sc.tx}
        /\ \A t \in TxIds \ {sc.tx} :
             VersionGet(r.c.Cache, t) = VersionGet(client.Cache, t)

\* a write has succeeded under one transaction while an entry of another
\* transaction is cached
C3_Witness ==
  \E p \in pend, e \in Entries(client) : e.k.tx # p.sc.tx

\* C4: a read answered from the cache returns, with the data, the version the
\* version service reported when the cache entry was stored.
C4_HitReturnsStoredVersion ==
  \A sc \in AllScopes, kind \in Reads, id \in IDs :
    LET r == Call(client, kind, id, sc, <<>>, 0)
    IN  r.hit => r.version = r.popVer

\* C5: a create, edit or delete called with both a transaction and a
\* version, or with neither, returns a ValidationError and runs no engine
\* command, the show command of edit included.
C5_BadTokenRejectedBeforeEngine ==
  \A sc \in AllScopes, kind \in Writes, id \in IDs, data \in Payloads,
     version \in Versions :
    LET r == Call(client, kind, id, sc, data, version)
    IN  ~TokenOK(sc.tx, version) => r.err = "validation" /\ r.cmds = 0

\* C6: every read returns the same content from the client with the cache
\* enabled as from the client with the cache disabled, after the same calls.
C6_CachedEqualsUncached ==
  \A sc \in AllScopes, kind \in Reads, id \in IDs :
    LET r == Call(client, kind, id, sc, <<>>, 0)
        u == Call(shadow, kind, id, sc, <<>>, 0)
    IN  r.err = u.err /\ r.data = u.data

\* C7 as stated: with the cache disabled every collection read and every
\* single-item read runs exactly one engine command and stores nothing, and
\* the same read repeated at once runs the engine again and returns the same
\* content.
C7_DisabledEveryReadRunsEngine ==
  ~client.Cache.enabled =>
    \A sc \in AllScopes, kind \in Reads, id \in IDs :
      LET r1 == Call(client, kind, id, sc, <<>>, 0)
          r2 == Call(r1.c, kind, id, sc, <<>>, 0)
      IN  /\ r1.cmds = 1 /\ r1.stores = 0 /\ Entries(r1.c) = {}
          /\ r2.cmds = 1 /\ r2.err = r1.err /\ r2.data = r1.data

\* C7 amended: the same, for the reads whose parent type and rule type the
\* scope resolver accepts.
C7_DisabledValidReadRunsEngine ==
  ~client.Cache.enabled =>
    \A sc \in AllScopes, kind \in Reads, id \in IDs :
      ValidScope(sc) =>
        LET r1 == Call(client, kind, id, sc, <<>>, 0)
            r2 == Call(r1.c, kind, id, sc, <<>>, 0)
        IN  /\ r1.cmds = 1 /\ r1.stores = 0 /\ Entries(r1.c) = {}
            /\ r2.cmds = 1 /\ r2.err = r1.err /\ r2.data = r1.data

\* with the cache disabled a collection read has returned, and the same read
\* again runs the engine and returns the same collection
C7_Witness ==
  /\ ~client.Cache.enabled
  /\ \E e \in seen :
       LET r == Call(client, "getAll", 0, e.sc, <<>>, 0)
       IN  ValidScope(e.sc) /\ r.cmds = 1 /\ r.err = "none" /\ r.data = e.data
           /\ r.data # <<>>

\* C8: with the cache enabled, after a collection read of a scope under a
\* transaction succeeded, a second collection read of that scope under that
\* transaction, with no write to the scope under the transaction in between,
\* runs no engine command and returns the same collection in the same order.
C8_SecondReadFromCache ==
  client.Cache.enabled =>
    \A e \in seen :
      LET r == Call(client, "getAll", 0, e.sc, <<>>, 0)
      IN  r.cmds = 0 /\ r.err = "none" /\ r.data = e.data

\* C9: a successful create, edit or delete under parent name P in
\* transaction T leaves every cache entry of T whose parent name is not P
\* present and unchanged.
C9_WriteLeavesSiblingParents ==
  \A sc \in AllScopes, kind \in Writes, id \in IDs, data \in Payloads,
     version \in Versions :
    LET r == Call(client, kind, id, sc, data, version)
    IN  r.err = "none" =>
          {e \in Entries(r.c) : e.k.tx = sc.tx /\ e.k.name # sc.name}
            = {e \in Entries(client) : e.k.tx = sc.tx /\ e.k.name # sc.name}

\* a write has succeeded under one parent name while an entry of a sibling
\* parent name is cached in the same transaction
C9_Witness ==
  \E p \in pend, e \in Entries(client) : e.k.tx = p.sc.tx /\ e.k.name # p.sc.name

BlobBlocks == SplitBlank(blob, <<>>)

NonBlankAt == {i \in 1..Len(BlobBlocks) : ~IsBlank(BlobBlocks[i])}

\* the k-th non-blank block, in the order of the text
NthBlock(k) ==
  BlobBlocks[CHOOSE i \in NonBlankAt : Cardinality({j \in NonBlankAt : j < i}) = k - 1]

HeaderOf(block) == ParseInt(splitHeaderLine(block))

\* C11: the record parser returns exactly one entity per non-blank block of
\* the text split at blank-line boundaries, in the order of the blocks; blank
\* blocks contribute nothing, an all-blank text yields the empty collection,
\* and the text with blocks headed 1 and 2 yields two entities with IDs 1
\* then 2.
C11_OneEntityPerBlockInOrder ==
  parsed.done =>
    /\ Len(parsed.out) = Cardinality(NonBlankAt)
    /\ \A k \in 1..Len(parsed.out) :
         /\ parsed.out[k].fields = parseObject(NthBlock(k), [ID |-> 0, fields |-> <<>>]).fields
         /\ HeaderOf(NthBlock(k)).ok => parsed.out[k].ID = HeaderOf(NthBlock(k)).val
    /\ IsBlank(blob) => parsed.out = <<>>
    /\ blob = ScenarioBlob =>
         Len(parsed.out) = 2 /\ parsed.out[1].ID = 1 /\ parsed.out[2].ID = 2

\* the text with blocks headed 1 and 2 and a trailing blank block has been
\* parsed into two entities
C11_Witness ==
  /\ parsed.done
  /\ blob = ScenarioBlob
  /\ Len(BlobBlocks) = 3
  /\ Len(parsed.out) = 2

\* C12: the record parser reports no error: every non-blank block whose
\* header token is not a valid integer yields an entity with ID 0 that is
\* appended to the output, so the output has one entity per non-blank block
\* whatever the headers are.
C12_MalformedHeaderYieldsZero ==
  parsed.done =>
    /\ Len(parsed.out) = Cardinality(NonBlankAt)
    /\ \A k \in 1..Cardinality(NonBlankAt) :
         ~HeaderOf(NthBlock(k)).ok => parsed.out[k].ID = 0

\* a text with two malformed headers has been parsed into a collection that
\* holds two entities with ID 0
C12_Witness ==
  /\ parsed.done
  /\ \E i, j \in 1..Len(parsed.out) :
       /\ i < j
       /\ parsed.out[i].ID = 0 /\ parsed.out[j].ID = 0
       /\ ~HeaderOf(NthBlock(i)).ok /\ ~HeaderOf(NthBlock(j)).ok

\* the rules the engine holds for a scope in the state of the scope's
\* transaction
EngineRules(engine, sc) ==
  IF sc.fam = "bsr" THEN engine.cfg[sc.tx][EKey("service", "usefarm", sc.name)]
  ELSE engine.cfg[sc.tx][EKey(typeToLbctlType(sc.ptype), tcpRuleToken(sc.rtype),
                              sc.name)]

EngineHolds(engine, sc, id) == id \in 1..Len(EngineRules(engine, sc))

\* C13: a single-item read for an id that the engine does not hold returns a
\* not-found error, returns no entity, and stores no single-item cache entry.
C13_AbsentIdIsNotFound ==
  \A sc \in AllScopes, id \in IDs :
    (ValidScope(sc) /\ ~EngineHolds(client.engine, sc, id)) =>
      LET r == Call(client, "getOne", id, sc, <<>>, 0)
      IN  /\ r.err = "notfound"
          /\ r.data = <<>>
          /\ r.stores = 0
          /\ Entries(r.c) = Entries(client)

\* C13 for backend switching rules alone, whose reads pass their transaction
\* to the engine
C13_AbsentSwitchingRuleIsNotFound ==
  \A sc \in AllScopes, id \in IDs :
    (sc.fam = "bsr" /\ ~EngineHolds(client.engine, sc, id)) =>
      LET r == Call(client, "getOne", id, sc, <<>>, 0)
      IN  /\ r.err = "notfound"
          /\ r.data = <<>>
          /\ r.stores = 0
          /\ Entries(r.c) = Entries(client)

\* the collection a dump of the given rules decodes to
EntitiesOf(rules) ==
  [i \in 1..Len(rules) |-> [ID |-> i, fields |-> NonBlank(<<rules[i]>>)]]

\* C15: a collection read or single-item read under a non-empty transaction
\* returns the state of that transaction, the caller's earlier successful
\* writes in it included; for TCP content rules as for backend switching
\* rules.
C15_ReadSeesOwnTransaction ==
  \A sc \in AllScopes, id \in IDs :
    (ValidScope(sc) /\ sc.tx # "") =>
      LET all == Call(client, "getAll", id, sc, <<>>, 0)
          one == Call(client, "getOne", id, sc, <<>>, 0)
          rules == EntitiesOf(EngineRules(client.engine, sc))
      IN  /\ all.err = "none" /\ all.data = rules
          /\ IF EngineHolds(client.engine, sc, id)
             THEN one.err = "none" /\ one.data = <<rules[id]>>
             ELSE one.err = "notfound"

\* C15 for backend switching rules alone
C15_SwitchingReadSeesOwnTransaction ==
  \A sc \in AllScopes, id \in IDs :
    (sc.fam = "bsr" /\ sc.tx # "") =>
      LET all == Call(client, "getAll", id, sc, <<>>, 0)
          one == Call(client, "getOne", id, sc, <<>>, 0)
          rules == EntitiesOf(EngineRules(client.engine, sc))
      IN  /\ all.err = "none" /\ all.data = rules
          /\ IF EngineHolds(client.engine, sc, id)
             THEN one.err = "none" /\ one.data = <<rules[id]>>
             ELSE one.err = "notfound"

\* C16: a create, edit or delete that returns an error drops no cache entry;
\* a create and a delete add no cache entry; the only cache entry an edit
\* may add is the single-item entry of its id, scope and transaction that
\* its pre-image read stores.
C16_FailedWriteKeepsCache ==
  \A sc \in AllScopes, kind \in Writes, id \in IDs, data \in Payloads,
     version \in Versions :
    LET r == Call(client, kind, id, sc, data, version)
        added == Entries(r.c) \ Entries(client)
    IN  /\ r.err # "none" => Entries(client) \subseteq Entries(r.c)
        /\ kind \in {"create", "delete"} => added = {}
        /\ \A e \in added :
             /\ e.k.kind = "one" /\ e.k.id = id
             /\ e.k.name = sc.name /\ e.k.tx = sc.tx

\* the cache holds entries of a scope on which a delete fails in the engine
\* and on which an edit fails after storing its pre-image
C16_Witness ==
  /\ client.Cache.enabled
  /\ \E sc \in AllScopes, e \in Entries(client), data \in Payloads,
        version \in Versions :
       /\ ValidScope(sc) /\ e.k.name = sc.name /\ e.k.tx = sc.tx /\ e.k.kind = "all"
       /\ Call(client, "delete", 2, sc, data, version).err \in {"conflict", "notfound"}
       /\ LET r == Call(client, "edit", 1, sc, data, version)
          IN  r.err # "none" /\ Entries(r.c) \ Entries(client) # {}

\* C17: an edit called with identifier id that succeeds has modified, in the
\* engine, the rule with that id and no other, also when the ID field of the
\* payload differs from id.
C17_EditModifiesRequestedId ==
  \A sc \in AllScopes, id \in IDs, data \in Payloads, version \in Versions :
    LET r == Call(client, "edit", id, sc, data, version)
        old == EngineRules(client.engine, sc)
        new == EngineRules(r.c.engine, sc)
    IN  (ValidScope(sc) /\ r.err = "none") =>
          /\ id \in 1..Len(old)
          /\ Len(new) = Len(old)
          /\ \A i \in 1..Len(old) :
               new[i] = IF i = id THEN FieldLine(data) ELSE old[i]

\* C17 for the edits whose payload carries the id they are called with
C17_EditWithMatchingIdModifiesIt ==
  \A sc \in AllScopes, id \in IDs, data \in Payloads, version \in Versions :
    LET r == Call(client, "edit", id, sc, data, version)
        old == EngineRules(client.engine, sc)
        new == EngineRules(r.c.engine, sc)
    IN  (ValidScope(sc) /\ data.ID = id /\ r.err = "none") =>
          /\ id \in 1..Len(old)
          /\ Len(new) = Len(old)
          /\ \A i \in 1..Len(old) :
               new[i] = IF i = id THEN FieldLine(data) ELSE old[i]

\* C18: a TCP content rule call with an unrecognized parent type, an
\* unrecognized rule type, or rule type response with parent type frontend
\* stores no cache entry, and every entry of the request cache is keyed by a
\* recognized parent type.
C18_InvalidScopeStoresNothing ==
  /\ \A sc \in AllScopes, kind \in AllKinds, id \in IDs, data \in Payloads,
        version \in Versions :
       (sc.fam = "tcp" /\ ~ValidScope(sc)) =>
         LET r == Call(client, kind, id, sc, data, version)
         IN  r.stores = 0 /\ Entries(r.c) = Entries(client)
  /\ \A e \in Entries(client) :
       /\ e.k.sub = "TcpContentRequestRules" => e.k.ptype \in {"frontend", "backend"}
       /\ e.k.sub = "TcpContentResponseRules" => e.k.ptype = ""

\* the response cache holds a backend's collection, and a collection read of
\* rule type response under a frontend of the same name consults it and
\* stores nothing
C18_Witness ==
  /\ client.Cache.enabled
  /\ \E e \in Entries(client), tx \in TxIds :
       /\ e.k.sub = "TcpContentResponseRules" /\ e.k.kind = "all" /\ e.k.tx = tx
       /\ LET r == Call(client, "getAll", 1, TCPScope("frontend", e.k.name, "response", tx),
                        <<>>, 0)
          IN  r.lookups = 1 /\ r.stores = 0 /\ Entries(r.c) = Entries(client)

\* what the read returns when it has to ask the engine
FreshRead(kind, id, sc) ==
  Call([client EXCEPT !.Cache.entries = {}], kind, id, sc, <<>>, 0)

\* C14: with callers working concurrently on the same scope and transaction,
\* once a write of the scope has completed and every call has returned, a
\* read answered from the cache returns what the engine returns for it.
C14_NoStaleHitAfterConcurrentWrite ==
  (\A p \in Callers : procs[p].pc = "idle") =>
    \A sc \in ConcScopes, kind \in Reads, id \in IDs :
      LET r == Call(client, kind, id, sc, <<>>, 0)
          fresh == FreshRead(kind, id, sc)
      IN  (r.hit /\ \E w \in pend : w.sc = sc) =>
            fresh.err = "none" /\ r.data = fresh.data

====
